---- MODULE Spec2Model ----
(***************************************************************************)
(* The frame reader of signal-backup-decode: InputFile (src/src/input.rs)  *)
(* and the frame codec Frame (src/src/frame.rs).                           *)
(*                                                                         *)
(* A backup file is held as its layout (the header, the frames the writer  *)
(* wrote, where each one starts) together with the damage done to it       *)
(* afterwards (flipped bits, a truncated end).  The reader works on byte   *)
(* offsets of that file: what it decrypts, authenticates and parses is     *)
(* decided by the byte ranges it actually reads, so a damaged length       *)
(* prefix makes it read across the layout the writer intended.             *)
(*                                                                         *)
(* Cryptography is ideal: a byte range decrypts to what the writer         *)
(* encrypted only when it is read with the writer's key and counter and    *)
(* starts where the writer's keystream started, and a 10-byte MAC trailer  *)
(* verifies only against the undamaged bytes it was computed over.  Any    *)
(* other decryption is pseudo-random: its value is a nondeterministic      *)
(* choice (the parameter g of read_frame).                                 *)
(***************************************************************************)
EXTENDS Integers, Sequences, FiniteSets, TLC

----------------------------------------------------------------------------
(* Bounds of the model. *)

\* longest body (frames after the header) of a generated backup
MaxFrames == 2
\* longest body of a backup that is damaged after it was written
MaxDamaged == 1
\* calls of next() or read_frame() made on one reader
MaxCalls == 4
\* calls made on a reader after a call of it returned Err
MaxErrCalls == 1
\* largest number of bytes cut off the end of a backup
MaxCut == 17
\* largest number of trailing bytes written after the last frame
MaxTail == 1
\* most digits of a password given on the command line
\* the calls of a caller that pulls the iterator until it stops; no file of
\* the model is long enough for as many frames
MaxPulls == 6

MaxDigits == 32
\* most parameters of a statement handed to Frame::new on its own
MaxParams == 3

----------------------------------------------------------------------------
(* 32-bit unsigned values, kept as <<high 16 bits, low 16 bits>>. *)

Half == 2 ^ 16

U32(n) == <<n \div Half, n % Half>>

\* only used for values at most MAX_FRAME_SIZE
ToInt(u) == u[1] * Half + u[2]

U32Gt(u, v) == u[1] > v[1] \/ (u[1] = v[1] /\ u[2] > v[2])

\* wrapping_add(1) on a u32
U32Inc(u) ==
    IF u[2] = Half - 1
    THEN <<(u[1] + 1) % Half, 0>>
    ELSE <<u[1], u[2] + 1>>

Pow2(k) == 2 ^ k

BitSet(n, k) == (n \div Pow2(k)) % 2 = 1

\* n (16 bits) with bit k (0 = least significant) inverted
FlipBit16(n, k) == IF BitSet(n, k) THEN n - Pow2(k) ELSE n + Pow2(k)

\* u with bit k (0..31, 0 = least significant) inverted
FlipBit32(u, k) ==
    IF k >= 16 THEN <<FlipBit16(u[1], k - 16), u[2]>>
    ELSE <<u[1], FlipBit16(u[2], k)>>

----------------------------------------------------------------------------
(* Program constants. *)

LENGTH_HMAC == 10

MAX_FRAME_SIZE == 100 * 1024 * 1024

\* size_of::<u32>()
SIZE_U32 == 4

\* the unexplained constant added to count_byte by InputFile::new
HEADER_SKEW == 16

----------------------------------------------------------------------------
(* Decoded protobuf records (Backups::BackupFrame) and Frame values. *)

FieldNames ==
    {"header", "statement", "preference", "attachment", "version", "end",
     "avatar", "sticker", "keyValue"}

ParamShapes == {"string", "integer", "double", "blob", "null", "unknown"}

\* A parse outcome: ok = FALSE is a protobuf parse error; otherwise the set
\* of populated top-level fields, the length of an attachment, avatar or
\* sticker, the parameters of a statement and the counter (first 4 bytes of
\* the iv) of a header.
Rec(fields, length, params, ctr) ==
    [ok |-> TRUE, fields |-> fields, length |-> length, params |-> params,
     ctr |-> ctr]

ParseError ==
    [ok |-> FALSE, fields |-> {}, length |-> 0, params |-> <<>>,
     ctr |-> <<0, 0>>]

EmptyRec == Rec({}, 0, <<>>, <<0, 0>>)

NoData == [some |-> FALSE, at |-> 0, n |-> 0, clear |-> FALSE]

NoFrame ==
    [variant |-> "", data_length |-> 0, data |-> NoData, params |-> <<>>,
     ctr |-> <<0, 0>>, at |-> 0]

----------------------------------------------------------------------------
(* Frame::new and TryFrom<Vec<u8>> for Frame (src/src/frame.rs). *)

\* the order in which Frame::new tests the fields of a BackupFrame
FieldOrder ==
    <<"header", "statement", "preference", "attachment", "version", "end",
      "avatar", "sticker", "keyValue">>

VariantOf(field) ==
    CASE field = "header" -> "Header"
      [] field = "statement" -> "Statement"
      [] field = "preference" -> "Preference"
      [] field = "attachment" -> "Attachment"
      [] field = "version" -> "Version"
      [] field = "end" -> "End"
      [] field = "avatar" -> "Avatar"
      [] field = "sticker" -> "Sticker"
      [] field = "keyValue" -> "KeyValue"

BlobVariants == {"Attachment", "Avatar", "Sticker"}

\* the parameter conversion as it would be with the tests for an integer
\* and a double parameter exchanged
ParamValue_exchanged(shape) ==
    CASE shape = "string" -> "Text"
      [] shape = "integer" -> "Real"
      [] shape = "double" -> "Integer"
      [] shape = "blob" -> "Blob"
      [] shape = "null" -> "Null"
      [] OTHER -> "panic"

\* rusqlite::types::Value pushed for one SqlStatement parameter
ParamValue(shape) ==
    CASE shape = "string" -> "Text"
      [] shape = "integer" -> "Integer"
      [] shape = "double" -> "Real"
      [] shape = "blob" -> "Blob"
      [] shape = "null" -> "Null"
      [] OTHER -> "panic"

\* Frame::new as it would be without the count of the populated fields: the
\* last populated field wins, none populated gives a frame without a variant
Frame_new_uncounted(rec) ==
    IF /\ "statement" \in rec.fields
       /\ \E i \in 1..Len(rec.params) : rec.params[i] = "unknown"
    THEN [panic |-> TRUE, frame |-> NoFrame]
    ELSE [panic |-> FALSE,
          frame |->
            IF rec.fields = {} THEN NoFrame
            ELSE [NoFrame EXCEPT
                     !.variant =
                        VariantOf(FieldOrder[
                            CHOOSE i \in 1..Len(FieldOrder) :
                                /\ FieldOrder[i] \in rec.fields
                                /\ \A j \in (i + 1)..Len(FieldOrder) :
                                       FieldOrder[j] \notin rec.fields])]]

\* Frame::new: every populated field overwrites ret and counts; a statement
\* parameter of unknown shape panics while the statement is converted, and
\* a count other than 1 panics at the end.
Frame_new(rec) ==
    LET fields_count == Cardinality(rec.fields)
        last == CHOOSE i \in 1..Len(FieldOrder) :
                    /\ FieldOrder[i] \in rec.fields
                    /\ \A j \in (i + 1)..Len(FieldOrder) :
                           FieldOrder[j] \notin rec.fields
        v == VariantOf(FieldOrder[last])
        badParam == /\ "statement" \in rec.fields
                    /\ \E i \in 1..Len(rec.params) : rec.params[i] = "unknown"
    IN  IF badParam \/ fields_count # 1
        THEN [panic |-> TRUE, frame |-> NoFrame]
        ELSE [panic |-> FALSE,
              frame |->
                [variant |-> v,
                 data_length |-> IF v \in BlobVariants THEN rec.length ELSE 0,
                 data |-> NoData,
                 params |-> IF v = "Statement"
                            THEN [i \in 1..Len(rec.params) |->
                                      ParamValue(rec.params[i])]
                            ELSE <<>>,
                 ctr |-> IF v = "Header" THEN rec.ctr ELSE <<0, 0>>,
                 at |-> 0]]

\* Result<Frame, Error> of frame.try_into(): kind is "Ok", "Err" or "Panic"
Result(kind, err, frame) == [kind |-> kind, err |-> err, frame |-> frame]

NoResult == Result("none", "", NoFrame)

\* TryFrom<Vec<u8>>: a protobuf parse failure is an Err, anything parsed goes
\* through Frame::new
try_from(parsed) ==
    IF ~parsed.ok THEN Result("Err", "Parse", NoFrame)
    ELSE LET r == Frame_new(parsed)
         IN  IF r.panic THEN Result("Panic", "", NoFrame)
             ELSE Result("Ok", "", r.frame)

\* Frame::set_data: panics on a variant without a data field
set_data(frame, data_add) ==
    IF frame.variant \in BlobVariants
    THEN [panic |-> FALSE, frame |-> [frame EXCEPT !.data = data_add]]
    ELSE [panic |-> TRUE, frame |-> frame]

----------------------------------------------------------------------------
(* The layout of a backup file.                                            *)
(*                                                                         *)
(* A file f has the header (4 cleartext length bytes, hdr_len payload      *)
(* bytes decoding to hdr_rec), then the written frames: frame i is 4       *)
(* encrypted length bytes whose plaintext is len, pay payload bytes whose  *)
(* plaintext decodes to rec, 10 MAC bytes, and when blob >= 0 a body of    *)
(* blob bytes and its 10 MAC bytes.  tail bytes follow the last frame, the *)
(* last cut bytes of all that are missing, and corrupt is the set of       *)
(* <<offset, bit>> inverted after writing.                                 *)

Token(len, pay, rec, blob) ==
    [len |-> len, pay |-> pay, rec |-> rec, blob |-> blob]

HasBlob(t) == t.blob >= 0

TokSize(t) ==
    SIZE_U32 + t.pay + LENGTH_HMAC
    + (IF HasBlob(t) THEN t.blob + LENGTH_HMAC ELSE 0)

RECURSIVE SizeUpTo(_, _)
\* bytes of the first i written frames
SizeUpTo(frames, i) ==
    IF i = 0 THEN 0 ELSE SizeUpTo(frames, i - 1) + TokSize(frames[i])

\* offset of the length prefix of written frame i
Start(f, i) == SIZE_U32 + f.hdr_len + SizeUpTo(f.frames, i - 1)

PayStart(f, i) == Start(f, i) + SIZE_U32

MacStart(f, i) == PayStart(f, i) + f.frames[i].pay

BlobStart(f, i) == MacStart(f, i) + LENGTH_HMAC

BlobMacStart(f, i) == BlobStart(f, i) + f.frames[i].blob

WrittenSize(f) ==
    SIZE_U32 + f.hdr_len + SizeUpTo(f.frames, Len(f.frames)) + f.tail

\* file.metadata().len()
FileSize(f) == WrittenSize(f) - f.cut

RECURSIVE BlobsBefore(_, _)
BlobsBefore(frames, i) ==
    IF i <= 1 THEN 0
    ELSE BlobsBefore(frames, i - 1) + (IF HasBlob(frames[i - 1]) THEN 1 ELSE 0)

RECURSIVE U32Add(_, _)
U32Add(u, n) == IF n = 0 THEN u ELSE U32Add(U32Inc(u), n - 1)

\* the counter the writer encrypted frame i under: it starts at the header's
\* and goes up by one per frame and per blob body
Ctr(f, i) == U32Add(f.hdr_rec.ctr, (i - 1) + BlobsBefore(f.frames, i))

BlobCtr(f, i) == U32Inc(Ctr(f, i))

\* some byte of [a, a + n) was changed after writing
Dirty(f, a, n) == \E c \in f.corrupt : a <= c[1] /\ c[1] < a + n

RECURSIVE FlipAll(_, _)
FlipAll(u, bits) ==
    IF bits = {} THEN u
    ELSE LET k == CHOOSE k \in bits : TRUE
         IN  FlipAll(FlipBit32(u, k), bits \ {k})

\* the 32-bit value of the 4 bytes at a, given that undamaged they hold u:
\* byte 0 is the most significant, bit 7 of a byte its most significant
Damaged32(f, a, u) ==
    FlipAll(u, {8 * (3 - (c[1] - a)) + c[2] :
                    c \in {c \in f.corrupt : a <= c[1] /\ c[1] < a + 4}})

----------------------------------------------------------------------------
(* The reader's state: the BufReader's position in the file, the           *)
(* Decrypter's counter (first 4 bytes of its iv), HMAC accumulator (the    *)
(* items fed to it since it was last reset) and verify_mac flag, and       *)
(* InputFile's counters.                                                   *)

Reader(pos, ctr, acc, verify, count_frame, count_byte) ==
    [pos |-> pos, ctr |-> ctr, acc |-> acc, verify |-> verify,
     count_frame |-> count_frame, count_byte |-> count_byte]

NoReader == Reader(0, <<0, 0>>, <<>>, TRUE, 0, 0)

\* read_exact as it would be if a read did not move the file position
read_exact_unmoved(f, s, n) ==
    IF s.pos + n <= FileSize(f)
    THEN [ok |-> TRUE, s |-> s]
    ELSE [ok |-> FALSE, s |-> [s EXCEPT !.pos = FileSize(f)]]

\* Read::read_exact of n bytes: at a short read the error is UnexpectedEof
\* and the file has been read to its end
read_exact(f, s, n) ==
    IF s.pos + n <= FileSize(f)
    THEN [ok |-> TRUE, s |-> [s EXCEPT !.pos = @ + n]]
    ELSE [ok |-> FALSE, s |-> [s EXCEPT !.pos = FileSize(f)]]

----------------------------------------------------------------------------
(* Decrypter (crate::decrypter). *)

\* decrypt(data): feeds the ciphertext bytes [a, a + n) to the HMAC
decrypt(s, a, n) == [s EXCEPT !.acc = Append(@, <<"ct", a, n>>)]

\* mac_update_with_iv(): feeds the current iv to the HMAC
mac_update_with_iv(s) ==
    [s EXCEPT !.acc = Append(@, <<"iv", s.ctr[1], s.ctr[2]>>)]

\* what the writer fed its HMAC for frame i, and for the blob body of frame i
FrameMacInput(f, i) ==
    <<<<"ct", Start(f, i), SIZE_U32 + f.frames[i].pay>>>>

BlobMacInput(f, i) ==
    <<<<"iv", BlobCtr(f, i)[1], BlobCtr(f, i)[2]>>,
      <<"ct", BlobStart(f, i), f.frames[i].blob>>>>

\* the 10 bytes at q are the first 10 bytes of the HMAC of the accumulator:
\* they are an undamaged trailer the writer computed, with the reader's key,
\* over exactly the undamaged bytes the accumulator holds
MacMatches(f, acc, q) ==
    /\ f.key_ok
    /\ \E i \in 1..Len(f.frames) :
          \/ /\ MacStart(f, i) = q
             /\ acc = FrameMacInput(f, i)
             /\ ~Dirty(f, Start(f, i), q + LENGTH_HMAC - Start(f, i))
          \/ /\ HasBlob(f.frames[i])
             /\ BlobMacStart(f, i) = q
             /\ acc = BlobMacInput(f, i)
             /\ ~Dirty(f, BlobStart(f, i), q + LENGTH_HMAC - BlobStart(f, i))

\* verify_mac(hmac): finalizes the HMAC, which resets it, and compares unless
\* verification was switched off
verify_mac(f, s, q) ==
    [ok |-> ~s.verify \/ MacMatches(f, s.acc, q),
     s |-> [s EXCEPT !.acc = <<>>]]

\* increase_iv(): resets the HMAC and adds 1 to the counter, wrapping
increase_iv(s) == [s EXCEPT !.acc = <<>>, !.ctr = U32Inc(@)]

\* AES-256-CTR of the 4 bytes at a under counter c, from keystream offset 0:
\* the writer's length when those are the length bytes of a frame written
\* under c, a pseudo-random value otherwise
PlainLen(f, a, c, g) ==
    IF /\ f.key_ok
       /\ \E i \in 1..Len(f.frames) : Start(f, i) = a /\ Ctr(f, i) = c
    THEN LET i == CHOOSE i \in 1..Len(f.frames) : Start(f, i) = a
         IN  Damaged32(f, a, f.frames[i].len)
    ELSE g.len

\* what the protobuf parser makes of bytes 4.. of the plaintext of
\* [a, a + 4 + n) under counter c: nothing populated when n = 0, the writer's
\* record when that is exactly an undamaged payload written under c, and the
\* outcome of parsing pseudo-random bytes otherwise
PlainPayload(f, a, c, n, g) ==
    IF n = 0 THEN EmptyRec
    ELSE IF /\ f.key_ok
            /\ \E i \in 1..Len(f.frames) :
                  /\ Start(f, i) = a /\ Ctr(f, i) = c
                  /\ f.frames[i].pay = n
                  /\ ~Dirty(f, PayStart(f, i), n)
         THEN LET i == CHOOSE i \in 1..Len(f.frames) : Start(f, i) = a
              IN  f.frames[i].rec
         ELSE g.rec

\* the plaintext of [a, a + n) under counter c is what the writer encrypted
PlainBlob(f, a, c, n) ==
    /\ f.key_ok
    /\ ~Dirty(f, a, n)
    /\ \E i \in 1..Len(f.frames) :
          /\ HasBlob(f.frames[i])
          /\ BlobStart(f, i) = a /\ BlobCtr(f, i) = c
          /\ n <= f.frames[i].blob

----------------------------------------------------------------------------
(* InputFile::read_data and InputFile::read_frame (src/src/input.rs).      *)
(* Each returns the reader's state after the call, the Result, and the     *)
(* calls it made, in order.                                                *)

DataResult(ok, err, s, data, trace) ==
    [ok |-> ok, err |-> err, s |-> s, data |-> data, trace |-> trace]

\* read_data_verify as it would be with the two additions to count_byte
\* exchanged
read_data_verify_exchanged(f, s, q, length, read_attachment, data, t) ==
    IF ~verify_mac(f, s, q).ok
    THEN DataResult(FALSE, "Mac", verify_mac(f, s, q).s, NoData,
                    t \o <<"verify_mac">>)
    ELSE DataResult(
             TRUE, "",
             [increase_iv(verify_mac(f, s, q).s) EXCEPT !.count_byte =
                 @ + length + (IF read_attachment
                               THEN SIZE_U32 ELSE LENGTH_HMAC)],
             data, t \o <<"verify_mac", "increase_iv">>)

\* read_data from the verify_mac call on: s is the state after the MAC
\* bytes were read, q where they start
read_data_verify(f, s, q, length, read_attachment, data, t) ==
    IF ~verify_mac(f, s, q).ok
    THEN DataResult(FALSE, "Mac", verify_mac(f, s, q).s, NoData,
                    t \o <<"verify_mac">>)
    ELSE DataResult(
             TRUE, "",
             [increase_iv(verify_mac(f, s, q).s) EXCEPT !.count_byte =
                 @ + length + (IF read_attachment
                               THEN LENGTH_HMAC ELSE SIZE_U32)],
             data, t \o <<"verify_mac", "increase_iv">>)

\* read_data from the decrypt call on: s is the state after n bytes were
\* read from offset a under counter s.ctr
read_data_decrypt(f, s, a, n, length, read_attachment, t) ==
    IF ~read_exact(f, decrypt(s, a, n), LENGTH_HMAC).ok
    THEN DataResult(FALSE, "Io",
                    read_exact(f, decrypt(s, a, n), LENGTH_HMAC).s, NoData,
                    t \o <<"decrypt", "read_mac">>)
    ELSE read_data_verify(
             f, read_exact(f, decrypt(s, a, n), LENGTH_HMAC).s, a + n,
             length, read_attachment,
             [some |-> TRUE, at |-> a, n |-> n,
              clear |-> PlainBlob(f, a, s.ctr, n)],
             t \o <<"decrypt", "read_mac">>)

\* read_data from the first read_exact on: s is the state after
\* mac_update_with_iv, n the number of bytes to read
read_data_body(f, s, n, length, read_attachment, t) ==
    IF ~read_exact(f, s, n).ok
    THEN DataResult(FALSE, "Io", read_exact(f, s, n).s, NoData,
                    t \o <<"read_body">>)
    ELSE read_data_decrypt(f, read_exact(f, s, n).s, s.pos, n, length,
                           read_attachment, t \o <<"read_body">>)

\* read_data as it would be without the call of mac_update_with_iv
read_data_iv_unfed(f, s, length, read_attachment) ==
    IF read_attachment
    THEN read_data_body(f, s, length, length, TRUE, <<>>)
    ELSE read_data_body(f, s, length - LENGTH_HMAC, length, FALSE, <<>>)

read_data(f, s, length, read_attachment) ==
    IF read_attachment
    THEN read_data_body(f, mac_update_with_iv(s), length, length, TRUE,
                        <<"mac_update_with_iv">>)
    ELSE read_data_body(f, s, length - LENGTH_HMAC, length, FALSE, <<>>)

NoLen == <<-1, -1>>

\* what a call leaves and returns: the reader's state, the Result, the calls
\* made, and what the call saw on the way: the frame length it previewed and
\* the record the protobuf parser handed to Frame::new
FrameResult(s, ret, trace) ==
    [s |-> s, ret |-> ret, trace |-> trace, len |-> NoLen,
     parsed |-> ParseError]

Err(kind) == Result("Err", kind, NoFrame)

\* read_frame_set_data as it would be if the body read were dropped instead
\* of attached to the frame
read_frame_set_data_dropped(frame, d, t) ==
    IF ~d.ok THEN FrameResult(d.s, Err(d.err), t \o d.trace)
    ELSE FrameResult([d.s EXCEPT !.count_frame = @ + 1],
                     Result("Ok", "", frame), t \o d.trace)

\* read_frame once the blob body d of frame was read
read_frame_set_data(frame, d, t) ==
    IF ~d.ok THEN FrameResult(d.s, Err(d.err), t \o d.trace)
    ELSE IF set_data(frame, d.data).panic
    THEN FrameResult(d.s, Result("Panic", "", NoFrame),
                     t \o d.trace \o <<"set_data">>)
    ELSE FrameResult([d.s EXCEPT !.count_frame = @ + 1],
                     Result("Ok", "", set_data(frame, d.data).frame),
                     t \o d.trace \o <<"set_data">>)

\* read_frame_match as it would be if the body that follows an attachment,
\* avatar or sticker frame were left unread
read_frame_match_body_unread(f, s, frame, t) ==
    IF frame.variant = "Header"
    THEN FrameResult(s, Err("UnexpectedHeader"), t)
    ELSE FrameResult([s EXCEPT !.count_frame = @ + 1],
                     Result("Ok", "", frame), t)

\* read_frame_match as it would be without the arm for a second Header
read_frame_match_header_passed(f, s, frame, t) ==
    IF frame.variant \in BlobVariants
    THEN read_frame_set_data(frame, read_data(f, s, frame.data_length, TRUE),
                             t)
    ELSE FrameResult([s EXCEPT !.count_frame = @ + 1],
                     Result("Ok", "", frame), t)

\* read_frame from the match on the parsed frame on
read_frame_match(f, s, frame, t) ==
    IF frame.variant \in BlobVariants
    THEN read_frame_set_data(frame, read_data(f, s, frame.data_length, TRUE),
                             t)
    ELSE IF frame.variant = "Header"
    THEN FrameResult(s, Err("UnexpectedHeader"), t)
    ELSE FrameResult([s EXCEPT !.count_frame = @ + 1],
                     Result("Ok", "", frame), t)

\* read_frame_parse as it would be if the frame were counted before its
\* payload is parsed
read_frame_parse_counted(f, s, a, parsed, t) ==
    [(IF try_from(parsed).kind # "Ok"
      THEN FrameResult([s EXCEPT !.count_frame = @ + 1], try_from(parsed),
                       t \o <<"try_into">>)
      ELSE read_frame_match(f, s, [try_from(parsed).frame EXCEPT !.at = a],
                            t \o <<"try_into">>))
     EXCEPT !.parsed = parsed]

\* read_frame from data.try_into() on: s is the state after count_byte was
\* updated, a the offset the frame was read from
read_frame_parse(f, s, a, parsed, t) ==
    [(IF try_from(parsed).kind # "Ok"
      THEN FrameResult(s, try_from(parsed), t \o <<"try_into">>)
      ELSE read_frame_match(f, s, [try_from(parsed).frame EXCEPT !.at = a],
                            t \o <<"try_into">>))
     EXCEPT !.parsed = parsed]

\* read_frame_verify as it would be if the result of verify_mac were
\* dropped
read_frame_verify_unchecked(f, s, q, a, len, parsed, t) ==
    read_frame_parse(
        f,
        [increase_iv(verify_mac(f, s, q).s) EXCEPT !.count_byte = @ + 4 + len],
        a, parsed, t \o <<"verify_mac", "increase_iv">>)

\* read_frame_verify as it would be if increase_iv were called before the
\* result of verify_mac is looked at
read_frame_verify_iv_first(f, s, q, a, len, parsed, t) ==
    IF ~verify_mac(f, s, q).ok
    THEN FrameResult(increase_iv(verify_mac(f, s, q).s), Err("Mac"),
                     t \o <<"verify_mac", "increase_iv">>)
    ELSE read_frame_parse(
             f,
             [increase_iv(verify_mac(f, s, q).s) EXCEPT !.count_byte =
                 @ + 4 + len],
             a, parsed, t \o <<"verify_mac", "increase_iv">>)

\* read_frame from verify_mac on: s is the state after the MAC bytes at q
\* were read, len the decrypted frame length
read_frame_verify(f, s, q, a, len, parsed, t) ==
    IF ~verify_mac(f, s, q).ok
    THEN FrameResult(verify_mac(f, s, q).s, Err("Mac"), t \o <<"verify_mac">>)
    ELSE read_frame_parse(
             f,
             [increase_iv(verify_mac(f, s, q).s) EXCEPT !.count_byte =
                 @ + 4 + len],
             a, parsed, t \o <<"verify_mac", "increase_iv">>)

\* read_frame from the combined decrypt on: s is the state after data_len
\* payload bytes were read, c the counter they are decrypted under
read_frame_decrypt(f, s, a, c, len, data_len, g, t) ==
    IF ~read_exact(f, decrypt(s, a, SIZE_U32 + data_len), LENGTH_HMAC).ok
    THEN FrameResult(
             read_exact(f, decrypt(s, a, SIZE_U32 + data_len), LENGTH_HMAC).s,
             Err("Io"), t \o <<"decrypt", "read_mac">>)
    ELSE read_frame_verify(
             f,
             read_exact(f, decrypt(s, a, SIZE_U32 + data_len), LENGTH_HMAC).s,
             a + SIZE_U32 + data_len, a, len,
             PlainPayload(f, a, c, data_len, g),
             t \o <<"decrypt", "read_mac">>)

\* read_frame_len as it would be with the limit tested by >= instead of >
read_frame_len_limit_excluded(f, s, a, frame_len_raw, g, t) ==
    IF ~U32Gt(U32(MAX_FRAME_SIZE), frame_len_raw)
    THEN FrameResult(s, Err("SanityLimit"), t)
    ELSE IF ToInt(frame_len_raw) < LENGTH_HMAC
    THEN FrameResult(s, Err("TooSmall"), t)
    ELSE IF ~read_exact(f, s, ToInt(frame_len_raw) - LENGTH_HMAC).ok
    THEN FrameResult(read_exact(f, s, ToInt(frame_len_raw) - LENGTH_HMAC).s,
                     Err("Io"), t \o <<"read_payload">>)
    ELSE read_frame_decrypt(
             f, read_exact(f, s, ToInt(frame_len_raw) - LENGTH_HMAC).s, a,
             s.ctr, ToInt(frame_len_raw),
             ToInt(frame_len_raw) - LENGTH_HMAC, g, t \o <<"read_payload">>)

\* read_frame from the checks of the decrypted length on: s is the state
\* after the 4 length bytes at a were read
read_frame_len(f, s, a, frame_len_raw, g, t) ==
    IF U32Gt(frame_len_raw, U32(MAX_FRAME_SIZE))
    THEN FrameResult(s, Err("SanityLimit"), t)
    ELSE IF ToInt(frame_len_raw) < LENGTH_HMAC
    THEN FrameResult(s, Err("TooSmall"), t)
    ELSE IF ~read_exact(f, s, ToInt(frame_len_raw) - LENGTH_HMAC).ok
    THEN FrameResult(read_exact(f, s, ToInt(frame_len_raw) - LENGTH_HMAC).s,
                     Err("Io"), t \o <<"read_payload">>)
    ELSE read_frame_decrypt(
             f, read_exact(f, s, ToInt(frame_len_raw) - LENGTH_HMAC).s, a,
             s.ctr, ToInt(frame_len_raw),
             ToInt(frame_len_raw) - LENGTH_HMAC, g, t \o <<"read_payload">>)

\* read_frame as it would be if the length were previewed with the
\* Decrypter's own decrypt, which feeds the HMAC
read_frame_preview_fed(f, s, g) ==
    IF ~read_exact(f, s, SIZE_U32).ok
    THEN FrameResult(read_exact(f, s, SIZE_U32).s, Err("Io"), <<"read_len">>)
    ELSE [read_frame_len(f,
                         decrypt(read_exact(f, s, SIZE_U32).s, s.pos,
                                 SIZE_U32),
                         s.pos, PlainLen(f, s.pos, s.ctr, g), g,
                         <<"read_len", "preview">>)
          EXCEPT !.len = PlainLen(f, s.pos, s.ctr, g)]

read_frame(f, s, g) ==
    IF ~read_exact(f, s, SIZE_U32).ok
    THEN FrameResult(read_exact(f, s, SIZE_U32).s, Err("Io"), <<"read_len">>)
    ELSE [read_frame_len(f, read_exact(f, s, SIZE_U32).s, s.pos,
                         PlainLen(f, s.pos, s.ctr, g), g,
                         <<"read_len", "preview">>)
          EXCEPT !.len = PlainLen(f, s.pos, s.ctr, g)]

\* Iterator::next as it would be without the arm for the End frame
next_end_yielded(rf) ==
    IF rf.ret.kind = "Panic" THEN "Panic" ELSE "Some"

\* Iterator::next: None for an End frame, Some(ret) for anything else
\* read_frame returns; a panic in read_frame unwinds through next
next(rf) ==
    IF rf.ret.kind = "Ok" /\ rf.ret.frame.variant = "End" THEN "None"
    ELSE IF rf.ret.kind = "Panic" THEN "Panic"
    ELSE "Some"

\* Config::new (src/src/args.rs), password handling.  A password is the
\* sequence of the code points of its characters.
PASSWORD_LEN == 30

\* '0' and '9'
CHAR_0 == 48

CHAR_9 == 57

IsDigit(c) == c >= CHAR_0 /\ c <= CHAR_9

\* password.retain(|c| c >= '0' && c <= '9')
retain(password) == SelectSeq(password, IsDigit)

NoConfig == [kind |-> "none", err |-> "", password |-> <<>>]

\* Err("Wrong password length ...") unless 30 characters are retained,
\* else the Config with those as its password
Config_new_password(password) ==
    IF Len(retain(password)) # PASSWORD_LEN
    THEN [kind |-> "Err", err |-> "WrongPasswordLength", password |-> <<>>]
    ELSE [kind |-> "Ok", err |-> "", password |-> retain(password)]

\* Config::new as it would be if --no-verify-mac were not passed on
Config_new_flag_dropped(f) == [verify_mac |-> TRUE]

\* Config::new (src/src/args.rs): verify_mac is on unless --no-verify-mac
Config_new(f) == [verify_mac |-> ~f.no_verify_mac]

\* InputFile::new as it would be if the Decrypter were not given the
\* header's iv
InputFile_new_match_iv_dropped(s, len, verify, t) ==
    IF t.kind # "Ok"
    THEN FrameResult(NoReader, t, <<"read_u32", "read_exact", "try_into">>)
    ELSE IF t.frame.variant = "Header"
    THEN FrameResult(
             Reader(s.pos, <<0, 0>>, <<>>, verify, 1,
                    len + SIZE_U32 + HEADER_SKEW),
             Result("Ok", "", t.frame),
             <<"read_u32", "read_exact", "try_into">>)
    ELSE FrameResult(NoReader, Err("InvalidHeader"),
                     <<"read_u32", "read_exact", "try_into">>)

\* InputFile::new as it would be if any first frame were taken for the
\* header
InputFile_new_match_any(s, len, verify, t) ==
    IF t.kind # "Ok"
    THEN FrameResult(NoReader, t, <<"read_u32", "read_exact", "try_into">>)
    ELSE FrameResult(
             Reader(s.pos, t.frame.ctr, <<>>, verify, 1,
                    len + SIZE_U32 + HEADER_SKEW),
             Result("Ok", "", t.frame),
             <<"read_u32", "read_exact", "try_into">>)

\* InputFile::new: the first frame is read with a cleartext length and an
\* undecrypted payload; any frame but a Header is the error "first frame is
\* not a header".  Decrypter::new takes the counter from the header's iv.
InputFile_new_match(s, len, verify, t) ==
    IF t.kind # "Ok"
    THEN FrameResult(NoReader, t, <<"read_u32", "read_exact", "try_into">>)
    ELSE IF t.frame.variant = "Header"
    THEN FrameResult(
             Reader(s.pos, t.frame.ctr, <<>>, verify, 1,
                    len + SIZE_U32 + HEADER_SKEW),
             Result("Ok", "", t.frame),
             <<"read_u32", "read_exact", "try_into">>)
    ELSE FrameResult(NoReader, Err("InvalidHeader"),
                     <<"read_u32", "read_exact", "try_into">>)

\* the header's payload is decoded as it lies in the file
PlainHeader(f, len) == IF len = 0 THEN EmptyRec ELSE f.hdr_rec

InputFile_new_frame(f, s, len, verify) ==
    IF ~read_exact(f, s, len).ok
    THEN FrameResult(NoReader, Err("Io"), <<"read_u32", "read_exact">>)
    ELSE [InputFile_new_match(read_exact(f, s, len).s, len, verify,
                              try_from(PlainHeader(f, len)))
          EXCEPT !.parsed = PlainHeader(f, len)]

InputFile_new(f, verify) ==
    IF ~read_exact(f, NoReader, SIZE_U32).ok
    THEN FrameResult(NoReader, Err("Io"), <<"read_u32">>)
    ELSE InputFile_new_frame(f, read_exact(f, NoReader, SIZE_U32).s,
                             f.hdr_len, verify)

----------------------------------------------------------------------------
(* The backups and arguments the reader is run on. *)

NoCtr == <<0, 0>>

HdrRec(c0) == Rec({"header"}, 0, <<>>, c0)
StmtRec == Rec({"statement"}, 0, <<"integer", "string", "null">>, NoCtr)
StmtUnknown == Rec({"statement"}, 0, <<"double", "unknown">>, NoCtr)
PrefRec == Rec({"preference"}, 0, <<>>, NoCtr)
VerRec == Rec({"version"}, 0, <<>>, NoCtr)
KvRec == Rec({"keyValue"}, 0, <<>>, NoCtr)
EndRec == Rec({"end"}, 0, <<>>, NoCtr)
AttRec(d) == Rec({"attachment"}, d, <<>>, NoCtr)
AvaRec(d) == Rec({"avatar"}, d, <<>>, NoCtr)
StiRec(d) == Rec({"sticker"}, d, <<>>, NoCtr)
TwoRec == Rec({"statement", "end"}, 0, <<"blob">>, NoCtr)

BlobFields == {"attachment", "avatar", "sticker"}

\* a frame as a correct writer writes it: the length prefix counts payload
\* and MAC, and a blob body of the declared length follows a blob record
Well(rec, pay) ==
    Token(U32(pay + LENGTH_HMAC), pay, rec,
          IF rec.ok /\ rec.fields \subseteq BlobFields /\ rec.fields # {}
          THEN rec.length ELSE -1)

EndToken == Well(EndRec, 2)

\* body frames of a valid backup: neither Header nor End
BodyTokens ==
    {Well(StmtRec, 2), Well(VerRec, 1), Well(PrefRec, 2), Well(KvRec, 3),
     Well(AttRec(3), 2), Well(AvaRec(0), 2), Well(StiRec(2), 3)}

\* a statement frame of the largest accepted length
BigToken == Well(StmtRec, MAX_FRAME_SIZE - LENGTH_HMAC)

\* authenticated frames a correct writer of valid backups does not write
OddTokens ==
    {Well(HdrRec(<<0, 7>>), 4), Well(EmptyRec, 0), Well(EmptyRec, 2),
     Well(TwoRec, 4), Well(ParseError, 2), Well(StmtUnknown, 3),
     Token(U32(MAX_FRAME_SIZE + 1), MAX_FRAME_SIZE + 1 - LENGTH_HMAC,
           StmtRec, -1),
     Token(U32(LENGTH_HMAC - 1), 0, EmptyRec, -1),
     Token(U32(12), 2, AttRec(3), -1),
     Token(U32(12), 2, AvaRec(2), 4)}

AllTokens == BodyTokens \cup {EndToken, BigToken} \cup OddTokens

SeqsUpTo(S, n) == UNION {[1..k -> S] : k \in 0..n}

File(verify, key_ok, hdr_len, hdr_rec, frames, tail, cut, corrupt) ==
    [no_verify_mac |-> ~verify, key_ok |-> key_ok, hdr_len |-> hdr_len,
     hdr_rec |-> hdr_rec, frames |-> frames, tail |-> tail, cut |-> cut,
     corrupt |-> corrupt]

HdrLen == 5

Ctr0 == <<0, 1>>

\* Header, body frames, End, nothing else
ValidFile(verify, c0, body) ==
    File(verify, TRUE, HdrLen, HdrRec(c0), body \o <<EndToken>>, 0, 0, {})

\* one frame of every kind the reader tells apart
ClassTokens ==
    {Well(StmtRec, 2), Well(AttRec(3), 2), Well(AvaRec(0), 2), EndToken,
     Well(HdrRec(<<0, 7>>), 4), Well(EmptyRec, 0), Well(TwoRec, 4),
     Well(ParseError, 2), Token(U32(LENGTH_HMAC - 1), 0, EmptyRec, -1),
     Token(U32(12), 2, AttRec(3), -1)}

\* any such frames, authenticated, after a good header
GeneralFiles ==
    {File(v, TRUE, HdrLen, HdrRec(Ctr0), b, 0, 0, {}) :
        v \in BOOLEAN, b \in SeqsUpTo(ClassTokens, MaxFrames)}

\* every frame there is, alone or before an End
SingleFiles ==
    {File(v, TRUE, HdrLen, HdrRec(Ctr0), b, 0, 0, {}) :
        v \in BOOLEAN,
        b \in UNION {{<<t>>, <<t, EndToken>>} : t \in AllTokens}}

\* first frames that are not a Header, or not a frame
HeaderFiles ==
    {File(TRUE, TRUE, h[1], h[2], b, 0, 0, {}) :
        h \in {<<0, EmptyRec>>, <<HdrLen, EmptyRec>>, <<HdrLen, StmtRec>>,
               <<HdrLen, VerRec>>, <<HdrLen, EndRec>>, <<HdrLen, AttRec(3)>>,
               <<HdrLen, PrefRec>>, <<HdrLen, KvRec>>, <<HdrLen, AvaRec(0)>>,
               <<HdrLen, StiRec(2)>>, <<HdrLen, TwoRec>>,
               <<HdrLen, ParseError>>, <<HdrLen, StmtUnknown>>},
        b \in {<<>>, <<EndToken>>}}

\* body frames of the backups that get damaged: without a blob body, with
\* one, with an empty one
DamagedTokens == {Well(StmtRec, 2), Well(AttRec(3), 2), Well(AvaRec(0), 2)}

\* counters about to wrap
WrapFiles ==
    {ValidFile(v, c0, b) :
        v \in BOOLEAN, c0 \in {<<Half - 1, Half - 1>>, <<0, Half - 1>>},
        b \in SeqsUpTo(DamagedTokens, MaxFrames)}

Min(a, b) == IF a < b THEN a ELSE b

DamagedFiles ==
    {ValidFile(v, Ctr0, b) :
        v \in BOOLEAN, b \in SeqsUpTo(DamagedTokens, MaxDamaged)}

\* backups with or without End, with trailing bytes, with a missing end
CutFiles ==
    UNION {
      {File(v, TRUE, HdrLen, HdrRec(Ctr0), b, tail, cut, {}) :
          cut \in 0..Min(MaxCut,
                         WrittenSize(File(v, TRUE, HdrLen, HdrRec(Ctr0), b,
                                          tail, 0, {})))} :
      v \in BOOLEAN, tail \in 0..MaxTail,
      b \in UNION {{c, c \o <<EndToken>>} :
                      c \in SeqsUpTo(DamagedTokens, MaxDamaged)}}

\* the offsets of the MAC trailers of a file
Trailers(f) ==
    {MacStart(f, i) : i \in 1..Len(f.frames)}
    \cup {BlobMacStart(f, i) :
             i \in {i \in 1..Len(f.frames) : HasBlob(f.frames[i])}}

\* valid backups with one bit inverted anywhere after the header
FlipFiles ==
    UNION {
      {[f EXCEPT !.corrupt = {<<off, bit>>}] :
          off \in Start(f, 1)..(WrittenSize(f) - 1), bit \in 0..7} :
      f \in {f \in DamagedFiles : ~f.no_verify_mac}}

\* valid backups with some of their MAC trailers damaged
MacFiles ==
    UNION {
      {[f EXCEPT !.corrupt = {<<q + k[1], k[2]>> : q \in T}] :
          T \in SUBSET Trailers(f) \ {{}},
          k \in {<<0, 0>>, <<0, 7>>, <<9, 0>>, <<9, 7>>}} :
      f \in DamagedFiles}

\* valid backups read with another passphrase than they were written with
WrongKeyFiles ==
    {[f EXCEPT !.key_ok = FALSE] : f \in DamagedFiles}

Files ==
    GeneralFiles \cup SingleFiles \cup HeaderFiles \cup WrapFiles
    \cup CutFiles
    \cup FlipFiles \cup MacFiles \cup WrongKeyFiles

\* the files read_frame is also called on directly
DirectFiles == SingleFiles \cup HeaderFiles \cup CutFiles

\* the same file before it was damaged
Undamaged(f) == [f EXCEPT !.corrupt = {}]

\* values a pseudo-random decryption is taken from
GarbageLens == {U32(LENGTH_HMAC - 1), U32(12), U32(MAX_FRAME_SIZE + 1)}

GarbageRecs == {ParseError, EmptyRec, StmtRec, EndRec, HdrRec(<<0, 7>>)}

Aligned(f, a, c) ==
    f.key_ok /\ \E i \in 1..Len(f.frames) : Start(f, i) = a /\ Ctr(f, i) = c

\* the pseudo-random values a read_frame call at state s can meet: a length
\* when the 4 bytes at s.pos are not a length prefix written under s.ctr,
\* and then a parse outcome when the call gets as far as parsing
GarbageLen(f, s) ==
    IF Aligned(f, s.pos, s.ctr) THEN {NoCtr} ELSE GarbageLens

GarbageRec(f, s, l) ==
    LET g0 == [len |-> l, rec |-> ParseError]
        len == PlainLen(f, s.pos, s.ctr, g0)
        n == ToInt(len) - LENGTH_HMAC
    IN  IF /\ ~U32Gt(len, U32(MAX_FRAME_SIZE))
           /\ n > 0
           /\ PlainPayload(f, s.pos, s.ctr, n, g0)
                # PlainPayload(f, s.pos, s.ctr, n, [g0 EXCEPT !.rec = EmptyRec])
           /\ read_frame(f, s, g0).ret.err = "Parse"
        THEN GarbageRecs
        ELSE {ParseError}

----------------------------------------------------------------------------
(* The state machine: one reader over one file, and beside it the same     *)
(* calls made on a reader over the file as it was before it was damaged.   *)

VARIABLES
    file,       \* the backup and the arguments the program is run with
    api,        \* "iter": the caller pulls next(); "direct": read_frame()
    phase,      \* "start", "open", "failed" (new returned Err), "panicked";
                \* "converted" when try_from was called on its own
    rd,         \* the InputFile: reader position, decrypter, counters
    pre,        \* rd as it was before the last call
    ret,        \* the Result of the last new() or read_frame()
    item,       \* what the last next() returned: "None", "Some", "Panic"
    trace,      \* the calls the last new() or read_frame() made, in order
    peek,       \* the frame length the last read_frame() previewed
    parsed,     \* the record the last call handed to Frame::new
    out,        \* every call's outcome so far: [item, ret] records
    ref,        \* phase, rd and out of the run on the undamaged file
    password,   \* the password given on the command line
    config      \* what Config::new returned for it

vars ==
    <<file, api, phase, rd, pre, ret, item, trace, peek, parsed, out, ref,
      password, config>>

Init ==
    /\ file \in Files
    /\ api \in IF file \in DirectFiles THEN {"iter", "direct"} ELSE {"iter"}
    /\ phase = "start"
    /\ rd = NoReader
    /\ pre = NoReader
    /\ ret = NoResult
    /\ item = ""
    /\ trace = <<>>
    /\ peek = NoLen
    /\ parsed = ParseError
    /\ out = <<>>
    /\ ref = [phase |-> "start", rd |-> NoReader, out |-> <<>>]
    /\ password = <<>>
    /\ config = NoConfig

PhaseAfter(kind) ==
    CASE kind = "Ok" -> "open"
      [] kind = "Err" -> "failed"
      [] OTHER -> "panicked"

\* InputFile::new(path, password, config.verify_mac)
New ==
    /\ phase = "start"
    /\ LET r == InputFile_new(file, Config_new(file).verify_mac)
           u == InputFile_new(Undamaged(file), Config_new(file).verify_mac)
       IN  /\ rd' = r.s
           /\ ret' = r.ret
           /\ trace' = r.trace
           /\ parsed' = r.parsed
           /\ phase' = PhaseAfter(r.ret.kind)
           /\ ref' = [phase |-> PhaseAfter(u.ret.kind), rd |-> u.s,
                      out |-> <<>>]
    /\ UNCHANGED <<file, api, pre, item, peek, out, password, config>>

Outcome(it, r) == [item |-> it, ret |-> r]

\* the calls made after the first call that returned Err
CallsAfterErr(o) ==
    IF \A i \in 1..Len(o) : o[i].ret.kind # "Err" THEN 0
    ELSE Len(o) - (CHOOSE i \in 1..Len(o) :
                      /\ o[i].ret.kind = "Err"
                      /\ \A j \in 1..(i - 1) : o[j].ret.kind # "Err")

\* the same call on the reader of the undamaged file
RefCall(viaNext, g) ==
    IF ref.phase # "open" THEN ref
    ELSE LET u == read_frame(Undamaged(file), ref.rd, g)
         IN  [phase |-> IF u.ret.kind = "Panic" THEN "panicked" ELSE "open",
              rd |-> u.s,
              out |-> Append(ref.out,
                             Outcome(IF viaNext THEN next(u) ELSE "", u.ret))]

\* one call on the reader: read_frame() itself, or next() around it
Call(viaNext) ==
    /\ phase = "open"
    /\ Len(out) < MaxCalls
    /\ CallsAfterErr(out) < MaxErrCalls
    /\ \E l \in GarbageLen(file, rd) :
       \E r \in GarbageRec(file, rd, l) :
          LET g == [len |-> l, rec |-> r]
              rf == read_frame(file, rd, g)
              it == IF viaNext THEN next(rf) ELSE ""
          IN  /\ rd' = rf.s
              /\ pre' = rd
              /\ ret' = rf.ret
              /\ trace' = rf.trace
              /\ peek' = rf.len
              /\ parsed' = rf.parsed
              /\ item' = it
              /\ out' = Append(out, Outcome(it, rf.ret))
              /\ phase' = IF rf.ret.kind = "Panic" THEN "panicked" ELSE "open"
              /\ ref' = RefCall(viaNext, g)
    /\ UNCHANGED <<file, api, password, config>>

\* the caller pulls the iterator
CallNext == api = "iter" /\ Call(TRUE)

\* the caller calls read_frame directly
CallReadFrame == api = "direct" /\ Call(FALSE)

Next == New \/ CallNext \/ CallReadFrame

Spec == Init /\ [][Next]_vars

----------------------------------------------------------------------------
(* A caller that pulls the iterator until the first None or Some(Err):     *)
(* for frame in input_file { ... frame? ... }.                             *)

\* the caller has left its loop, or the process has ended
Stopped ==
    \/ phase \in {"failed", "panicked"}
    \/ Len(out) > 0 /\ (item = "None" \/ ret.kind = "Err")

InitPull == Init /\ api = "iter"

\* the next turn of the loop: one call of next()
Pull ==
    /\ phase = "open"
    /\ ~Stopped
    /\ Len(out) < MaxPulls
    /\ \E l \in GarbageLen(file, rd) :
       \E r \in GarbageRec(file, rd, l) :
          LET g == [len |-> l, rec |-> r]
              rf == read_frame(file, rd, g)
          IN  /\ rd' = rf.s
              /\ pre' = rd
              /\ ret' = rf.ret
              /\ trace' = rf.trace
              /\ peek' = rf.len
              /\ parsed' = rf.parsed
              /\ item' = next(rf)
              /\ out' = Append(out, Outcome(next(rf), rf.ret))
              /\ phase' = IF rf.ret.kind = "Panic" THEN "panicked" ELSE "open"
              /\ ref' = RefCall(TRUE, g)
    /\ UNCHANGED <<file, api, password, config>>

NextPull == New \/ Pull

\* ENABLED <<NextPull>>_vars, from the guards of New and Pull
CanPull ==
    \/ phase = "start"
    \/ phase = "open" /\ ~Stopped /\ Len(out) < MaxPulls

\* the loop goes on while it can: WF_vars(NextPull), written with CanPull
\* for ENABLED <<NextPull>>_vars; every step of NextPull changes vars
SpecPull ==
    InitPull /\ [][NextPull]_vars /\ (<>[]CanPull => []<><<TRUE>>_vars)

----------------------------------------------------------------------------
(* Config::new on the passwords a user may type. *)

\* n digits: 1234567890 1234567890 ...
Digits(n) == [i \in 1..n |-> CHAR_0 + (i % 10)]

InsertAt(s, p, c) == SubSeq(s, 1, p) \o <<c>> \o SubSeq(s, p + 1, Len(s))

\* tab, line feed, space, '-', '/', ':', 'a'
OtherChars == {9, 10, 32, 45, 47, 58, 97}

RECURSIVE Grouped(_)
\* the digits in groups of five with a space between the groups, the way
\* Signal shows a backup passphrase
Grouped(s) ==
    IF Len(s) <= 5 THEN s
    ELSE SubSeq(s, 1, 5) \o <<32>> \o Grouped(SubSeq(s, 6, Len(s)))

Passwords ==
    UNION {{Digits(n), Grouped(Digits(n))}
           \cup {InsertAt(Digits(n), p, c) :
                    p \in {0, n \div 2, n}, c \in OtherChars} :
           n \in 0..MaxDigits}

InitArgs ==
    /\ file = ValidFile(TRUE, Ctr0, <<>>)
    /\ api = "iter"
    /\ phase = "start"
    /\ rd = NoReader
    /\ pre = NoReader
    /\ ret = NoResult
    /\ item = ""
    /\ trace = <<>>
    /\ peek = NoLen
    /\ parsed = ParseError
    /\ out = <<>>
    /\ ref = [phase |-> "start", rd |-> NoReader, out |-> <<>>]
    /\ password \in Passwords
    /\ config = NoConfig

\* Config::new()
ParseArgs ==
    /\ config = NoConfig
    /\ config' = Config_new_password(password)
    /\ UNCHANGED <<file, api, phase, rd, pre, ret, item, trace, peek, parsed,
                   out, ref, password>>

NextArgs == ParseArgs

SpecArgs == InitArgs /\ [][NextArgs]_vars

----------------------------------------------------------------------------
(* Frame::try_from on statement records of every parameter list. *)

StatementRecs ==
    {Rec({"statement"}, 0, ps, NoCtr) : ps \in SeqsUpTo(ParamShapes, MaxParams)}

InitFrame ==
    /\ file = ValidFile(TRUE, Ctr0, <<>>)
    /\ api = "direct"
    /\ phase = "start"
    /\ rd = NoReader
    /\ pre = NoReader
    /\ ret = NoResult
    /\ item = ""
    /\ trace = <<>>
    /\ peek = NoLen
    /\ parsed \in StatementRecs
    /\ out = <<>>
    /\ ref = [phase |-> "start", rd |-> NoReader, out |-> <<>>]
    /\ password = <<>>
    /\ config = NoConfig

\* let frame: Frame = data.try_into()
Convert ==
    /\ phase = "start"
    /\ ret' = try_from(parsed)
    /\ trace' = <<"try_into">>
    /\ phase' = "converted"
    /\ UNCHANGED <<file, api, rd, pre, item, peek, parsed, out, ref, password,
                   config>>

NextFrame == Convert

SpecFrame == InitFrame /\ [][NextFrame]_vars

----------------------------------------------------------------------------
(* Valid backups. *)

OneField(rec) == CHOOSE x \in rec.fields : TRUE

\* a frame as a correct writer writes it, holding exactly one known record
WellFormed(t) ==
    /\ t.rec.ok
    /\ Cardinality(t.rec.fields) = 1
    /\ \A i \in 1..Len(t.rec.params) : t.rec.params[i] # "unknown"
    /\ t.pay > 0
    /\ t = Well(t.rec, t.pay)

\* Header, then body frames none of which is Header or End, then End, all
\* authenticated, and nothing else; read with the passphrase it was written
\* with
ValidBackup(f) ==
    /\ f.key_ok /\ f.corrupt = {} /\ f.cut = 0 /\ f.tail = 0
    /\ f.hdr_len > 0 /\ f.hdr_rec.ok /\ f.hdr_rec.fields = {"header"}
    /\ Len(f.frames) >= 1
    /\ \A i \in 1..Len(f.frames) :
          /\ WellFormed(f.frames[i])
          /\ "header" \notin f.frames[i].rec.fields
          /\ ("end" \in f.frames[i].rec.fields) <=> (i = Len(f.frames))

\* the number of body frames of a valid backup
BodyLen(f) == Len(f.frames) - 1

\* no frame is longer than the reader's sanity limit
WithinLimit(f) ==
    \A i \in 1..Len(f.frames) :
        ~U32Gt(f.frames[i].len, U32(MAX_FRAME_SIZE))

\* what C1 says of the calls made so far on a valid backup
BodyThenNone ==
    /\ phase = "open"
    /\ \A k \in 1..Len(out) :
          /\ k <= BodyLen(file) =>
                /\ out[k].item = "Some"
                /\ out[k].ret.kind = "Ok"
                /\ out[k].ret.frame.variant =
                       VariantOf(OneField(file.frames[k].rec))
                /\ out[k].ret.frame.variant # "End"
          /\ k = BodyLen(file) + 1 => out[k].item = "None"
          /\ k > BodyLen(file) + 1 =>
                out[k].item = "Some" /\ out[k].ret.kind = "Err"

----------------------------------------------------------------------------
(* C1 as claimed: pulling the iterator over any valid backup with body     *)
(* frames f1..fn yields Some(Ok(f1)), ..., Some(Ok(fn)), then None for the *)
(* End frame; End is never yielded as an item, and no call after that None *)
(* yields an Ok frame.  It fails for a valid backup that holds a frame     *)
(* longer than MAX_FRAME_SIZE: read_frame returns the sanity-limit error   *)
(* for it.                                                                 *)
C1_AnyValidBackupYieldsBodyThenNone ==
    (api = "iter" /\ ValidBackup(file) /\ phase # "start") => BodyThenNone

(* C1, amended: the same of every valid backup none of whose frames is     *)
(* longer than MAX_FRAME_SIZE (100 MiB).                                   *)
C1_ValidBackupYieldsBodyThenNone ==
    (api = "iter" /\ ValidBackup(file) /\ WithinLimit(file)
     /\ phase # "start") => BodyThenNone

\* a valid backup with two body frames, one with a blob body, pulled past
\* the None of its End frame
C1_Witness ==
    /\ api = "iter" /\ ValidBackup(file) /\ WithinLimit(file)
    /\ BodyLen(file) = 2
    /\ \E i \in 1..2 : HasBlob(file.frames[i])
    /\ Len(out) = 4
    /\ out[3].item = "None"

----------------------------------------------------------------------------
(* C2: after next() has returned Some(Err), the next call to next()        *)
(* returns None.  next() calls read_frame again every time instead: after  *)
(* an error it returns whatever read_frame returns then, Some(Err) again   *)
(* or Some(Ok(frame)).                                                     *)
C2_NoneAfterErr ==
    api = "iter" =>
        \A k \in 1..(Len(out) - 1) :
            (out[k].item = "Some" /\ out[k].ret.kind = "Err") =>
                out[k + 1].item = "None"

\* no call so far returned an error
NoErr(o) == \A i \in 1..Len(o) : o[i].ret.kind = "Ok"

----------------------------------------------------------------------------
(* C3: frames are yielded in their on-disk order.  The frames returned so  *)
(* far were read from strictly increasing offsets, each blob body from     *)
(* after its frame and before the next; and as long as no call failed on a *)
(* valid backup, or on any file read with verification on, the k-th frame  *)
(* returned is the k-th frame written, with the blob body written right    *)
(* after it: none is skipped, duplicated or reordered.                     *)
C3_YieldedInDiskOrder ==
    /\ \A j \in 1..Len(out) : \A i \in 1..(j - 1) :
          (out[i].ret.kind = "Ok" /\ out[j].ret.kind = "Ok") =>
              /\ out[i].ret.frame.at < out[j].ret.frame.at
              /\ out[i].ret.frame.data.some =>
                    /\ out[i].ret.frame.at < out[i].ret.frame.data.at
                    /\ out[i].ret.frame.data.at + out[i].ret.frame.data.n
                           <= out[j].ret.frame.at
    /\ ((rd.verify \/ ValidBackup(file)) /\ NoErr(out)) =>
          \A k \in 1..Len(out) :
              /\ k <= Len(file.frames)
              /\ out[k].ret.frame.at = Start(file, k)
              /\ out[k].ret.frame.variant =
                     VariantOf(OneField(file.frames[k].rec))
              /\ out[k].ret.frame.data.some = HasBlob(file.frames[k])
              /\ HasBlob(file.frames[k]) =>
                    /\ out[k].ret.frame.data.at = BlobStart(file, k)
                    /\ out[k].ret.frame.data.n = file.frames[k].blob
                    /\ out[k].ret.frame.data.clear

\* two frames yielded from a valid backup, the first with a blob body
C3_Witness ==
    /\ api = "iter" /\ ValidBackup(file)
    /\ Len(out) >= 2 /\ BodyLen(file) >= 2
    /\ HasBlob(file.frames[1]) /\ file.frames[1].blob > 0
    /\ out[2].ret.kind = "Ok"

----------------------------------------------------------------------------
(* Backups with one inverted bit. *)

\* the offset of the inverted bit of a file with exactly one
FlipAt(f) == (CHOOSE c \in f.corrupt : TRUE)[1]

\* a valid backup but for one inverted bit in one of its frames, read with
\* verification on
OneFlip(f) ==
    /\ ~f.no_verify_mac
    /\ Cardinality(f.corrupt) = 1
    /\ ValidBackup(Undamaged(f)) /\ WithinLimit(f)
    /\ FlipAt(f) >= Start(f, 1)

\* the first frame the inverted bit affects: the one it lies in
Affected(f) ==
    CHOOSE i \in 1..Len(f.frames) :
        /\ Start(f, i) <= FlipAt(f)
        /\ FlipAt(f) < Start(f, i) + TokSize(f.frames[i])

InLengthPrefix(f) == FlipAt(f) < PayStart(f, Affected(f))

InFrameMac(f) ==
    /\ MacStart(f, Affected(f)) <= FlipAt(f)
    /\ FlipAt(f) < BlobStart(f, Affected(f))

\* the frames before the affected one are returned, and the call that reads
\* the affected frame returns an error of one of kinds and no frame
FailsOnAffected(kinds) ==
    \A k \in 1..Len(out) :
        /\ k < Affected(file) => out[k].ret.kind = "Ok"
        /\ k = Affected(file) =>
              /\ out[k].ret.kind = "Err"
              /\ out[k].ret.err \in kinds
              /\ out[k].ret.frame = NoFrame
              /\ out[k].item \in {"", "Some"}

----------------------------------------------------------------------------
(* C4 as claimed: with verification on, one inverted bit in a frame (its   *)
(* length prefix, payload or MAC) makes the reader fail on the first       *)
(* affected frame with the MAC error and no other kind, and no frame is    *)
(* returned for it.  It fails for a bit of the length prefix: the length   *)
(* is decrypted and tested, and the payload read, before the MAC is.       *)
C4_FlipGivesMacErrorOnly ==
    OneFlip(file) => FailsOnAffected({"Mac"})

(* C4, amended: the reader fails on the first affected frame and returns   *)
(* no frame for it; the error is the MAC error when the bit lies in the    *)
(* payload, the MAC, the blob body or its MAC, and is the MAC error, the   *)
(* sanity-limit error, the too-small-length error or the I/O error of a    *)
(* short read when the bit lies in the length prefix.                      *)
C4_FlipFailsOnAffectedFrame ==
    OneFlip(file) =>
        IF InLengthPrefix(file)
        THEN FailsOnAffected({"Mac", "SanityLimit", "TooSmall", "Io"})
        ELSE FailsOnAffected({"Mac"})

\* the bit lies in the MAC of the second frame: the first frame was
\* returned, the second failed with the MAC error
C4_Witness ==
    /\ OneFlip(file)
    /\ Affected(file) = 2 /\ InFrameMac(file)
    /\ Len(out) = 2
    /\ out[1].ret.kind = "Ok"
    /\ out[2].ret.err = "Mac"

\* the bit lies in the length prefix and the call failed otherwise than
\* with the MAC error
C4_WitnessLengthPrefix ==
    /\ OneFlip(file) /\ InLengthPrefix(file)
    /\ Len(out) = Affected(file)
    /\ ret.err \in {"SanityLimit", "TooSmall", "Io"}

----------------------------------------------------------------------------
(* C5: with verify_mac = false, a backup whose MAC trailers (of frames or  *)
(* of blob bodies) are corrupted is read without error, and every call     *)
(* returns what it returns on the uncorrupted backup and leaves the reader *)
(* (position, counter, frame count, byte count) as it leaves it there.     *)

\* a valid backup but for inverted bits in its MAC trailers, read with
\* --no-verify-mac
MacOnlyDamage(f) ==
    /\ f.no_verify_mac
    /\ f.corrupt # {}
    /\ \A c \in f.corrupt :
          \E q \in Trailers(f) : q <= c[1] /\ c[1] < q + LENGTH_HMAC
    /\ ValidBackup(Undamaged(f)) /\ WithinLimit(f)

C5_CorruptMacsIgnoredWhenNotVerifying ==
    (MacOnlyDamage(file) /\ phase # "start") =>
        /\ phase = ref.phase
        /\ rd = ref.rd
        /\ out = ref.out
        /\ \A k \in 1..Len(out) :
              k <= Len(file.frames) => out[k].ret.kind = "Ok"

\* a frame MAC and a blob-body MAC are corrupted and the backup was read to
\* its End
C5_Witness ==
    /\ MacOnlyDamage(file)
    /\ \E i \in 1..Len(file.frames) :
          /\ HasBlob(file.frames[i]) /\ file.frames[i].blob > 0
          /\ Dirty(file, MacStart(file, i), LENGTH_HMAC)
          /\ Dirty(file, BlobMacStart(file, i), LENGTH_HMAC)
    /\ Len(out) = Len(file.frames)
    /\ item = "None"

----------------------------------------------------------------------------
(* Records handed to Frame::new. *)

\* the last call (new or read_frame) made the call named e
Called(e) == \E i \in 1..Len(trace) : trace[i] = e

\* the last call parsed its payload into a record and handed it to
\* Frame::new
Decoded == phase # "start" /\ Called("try_into") /\ parsed.ok

C6_WitnessTwoFields ==
    /\ Len(out) > 0 /\ Decoded
    /\ Cardinality(parsed.fields) = 2
    /\ ret.kind = "Panic"

----------------------------------------------------------------------------
(* C7: no Header frame is ever returned by read_frame or yielded by the    *)
(* iterator: whenever a frame after the first decodes to Header,           *)
(* read_frame returns the unexpected-header error.                         *)
C7_NoHeaderAfterBootstrap ==
    /\ \A k \in 1..Len(out) :
          out[k].ret.kind = "Ok" => out[k].ret.frame.variant # "Header"
    /\ (Len(out) > 0 /\ Decoded /\ parsed.fields = {"header"}) =>
          /\ ret = Err("UnexpectedHeader")
          /\ item \in {"", "Some"}

\* a second Header was met in an authenticated frame
C7_Witness ==
    /\ Len(out) > 0 /\ Decoded /\ parsed.fields = {"header"}
    /\ ret.err = "UnexpectedHeader"
    /\ Called("verify_mac")

----------------------------------------------------------------------------
(* C8: InputFile::new succeeds only if the first frame of the file, read   *)
(* with a cleartext length and an undecrypted payload, decodes to a        *)
(* Header; for a first frame of any other variant it returns the           *)
(* invalid-header error and no reader.                                     *)

\* a record Frame::new makes a frame of
Converts(rec) ==
    /\ rec.ok /\ Cardinality(rec.fields) = 1
    /\ \A i \in 1..Len(rec.params) : rec.params[i] # "unknown"

C8_NewNeedsHeader ==
    /\ phase = "open" =>
          /\ file.hdr_len > 0
          /\ file.hdr_rec.ok /\ file.hdr_rec.fields = {"header"}
    /\ (phase = "open" /\ Len(out) = 0) =>
          /\ trace = <<"read_u32", "read_exact", "try_into">>
          /\ parsed = file.hdr_rec
          /\ ret.kind = "Ok" /\ ret.frame.variant = "Header"
          /\ rd.pos = SIZE_U32 + file.hdr_len
          /\ rd.ctr = file.hdr_rec.ctr
    /\ (Decoded /\ Len(out) = 0 /\ Converts(parsed)
        /\ parsed.fields # {"header"}) =>
          /\ phase = "failed"
          /\ ret = Err("InvalidHeader")
          /\ rd = NoReader

\* the first frame of the file is an End frame
C8_Witness ==
    /\ phase = "failed"
    /\ parsed.fields = {"end"}
    /\ ret.err = "InvalidHeader"

----------------------------------------------------------------------------
(* C9: read_frame rejects a decrypted length L below 10 with the           *)
(* too-small-length error and L above 100 MiB with the sanity-limit error, *)
(* in both cases having read nothing but the 4 length bytes and before     *)
(* decrypt, verify_mac or increase_iv is called; it accepts L = 10 and     *)
(* L = 100 MiB and goes on to read the payload.                            *)

\* the last call was a read_frame that got as far as the frame length
Previewed == Len(out) > 0 /\ peek # NoLen

\* the last call did nothing but read the 4 length bytes and preview them
OnlyLengthRead ==
    /\ trace = <<"read_len", "preview">>
    /\ rd = [pre EXCEPT !.pos = pre.pos + SIZE_U32]
    /\ ret.frame = NoFrame

C9_LengthLimits ==
    Previewed =>
        /\ U32Gt(peek, U32(MAX_FRAME_SIZE)) =>
              ret = Err("SanityLimit") /\ OnlyLengthRead
        /\ U32Gt(U32(LENGTH_HMAC), peek) =>
              ret = Err("TooSmall") /\ OnlyLengthRead
        /\ peek \in {U32(LENGTH_HMAC), U32(MAX_FRAME_SIZE)} =>
              /\ ret.err \notin {"SanityLimit", "TooSmall"}
              /\ Len(trace) >= 3 /\ trace[3] = "read_payload"
              /\ pre.pos + SIZE_U32 + ToInt(peek) <= FileSize(file) =>
                    /\ Called("decrypt") /\ Called("verify_mac")
                    /\ rd.pos >= pre.pos + SIZE_U32 + ToInt(peek)

\* a frame of length exactly 100 MiB was read and returned
C9_Witness ==
    /\ Previewed
    /\ peek = U32(MAX_FRAME_SIZE)
    /\ ret.kind = "Ok"
    /\ rd.pos = pre.pos + SIZE_U32 + MAX_FRAME_SIZE

\* a frame of length 100 MiB + 1 was rejected
C9_WitnessAboveLimit ==
    Previewed /\ peek = U32(MAX_FRAME_SIZE + 1) /\ ret.err = "SanityLimit"

\* a frame of length 9 was rejected
C9_WitnessBelowMac ==
    Previewed /\ peek = U32(LENGTH_HMAC - 1) /\ ret.err = "TooSmall"

\* a frame of length exactly 10 passed the checks of its length
C9_WitnessMacOnly ==
    Previewed /\ peek = U32(LENGTH_HMAC) /\ Called("verify_mac")

----------------------------------------------------------------------------
(* C10: an Attachment, Avatar or Sticker frame of declared length D that   *)
(* read_frame returns carries a body of exactly D decrypted bytes, those   *)
(* right after the frame's MAC; a frame of any other variant is returned   *)
(* without a body, and set_data is not called on it.                       *)
C10_BlobFramesCarryBody ==
    (Len(out) > 0 /\ ret.kind = "Ok") =>
        IF ret.frame.variant \in BlobVariants
        THEN /\ ret.frame.data_length = parsed.length
             /\ ret.frame.data.some
             /\ ret.frame.data.n = ret.frame.data_length
             /\ ret.frame.data.at = pre.pos + SIZE_U32 + ToInt(peek)
             /\ rd.pos = ret.frame.data.at + ret.frame.data.n + LENGTH_HMAC
             /\ \E i \in 1..(Len(trace) - 4) :
                   /\ trace[i] = "read_body" /\ trace[i + 1] = "decrypt"
                   /\ trace[Len(trace)] = "set_data"
             /\ out[Len(out)].ret.frame.data = ret.frame.data
        ELSE /\ ret.frame.data = NoData
             /\ ~Called("set_data")
             /\ ~Called("read_body")

\* an Attachment frame came back with the 3 bytes of its body
C10_Witness ==
    /\ Len(out) > 0 /\ ret.kind = "Ok"
    /\ ret.frame.variant = "Attachment"
    /\ ret.frame.data_length = 3
    /\ ret.frame.data.some /\ ret.frame.data.n = 3
    /\ ret.frame.data.clear

\* a Statement frame came back without a body
C10_WitnessNoBody ==
    /\ Len(out) > 0 /\ ret.kind = "Ok"
    /\ ret.frame.variant = "Statement"
    /\ ret.frame.data = NoData

----------------------------------------------------------------------------
(* C11: the byte counter never decreases; a read_frame call that returns   *)
(* Ok adds 4 + L to it (L the decrypted frame length, MAC included) and,   *)
(* for a frame with a blob body of D bytes, D + 10 more; after any         *)
(* sequence of successful calls it is its value after new() plus that sum  *)
(* over the frames read.                                                   *)

\* count_byte as InputFile::new leaves it
Bootstrap(f) == f.hdr_len + SIZE_U32 + HEADER_SKEW

RECURSIVE FrameBytes(_, _)
\* the sum over the first n frames of 4 + L, and D + 10 for a blob body
FrameBytes(frames, n) ==
    IF n = 0 THEN 0
    ELSE FrameBytes(frames, n - 1) + SIZE_U32 + ToInt(frames[n].len)
         + (IF HasBlob(frames[n]) THEN frames[n].blob + LENGTH_HMAC ELSE 0)

C11_ByteCounterSums ==
    /\ Len(out) > 0 => rd.count_byte >= pre.count_byte
    /\ (Len(out) > 0 /\ ret.kind = "Ok") =>
          rd.count_byte =
              pre.count_byte + SIZE_U32 + ToInt(peek)
              + (IF ret.frame.variant \in BlobVariants
                 THEN ret.frame.data_length + LENGTH_HMAC ELSE 0)
    /\ (phase = "open" /\ NoErr(out)
        /\ (rd.verify \/ ValidBackup(file))) =>
          rd.count_byte = Bootstrap(file) + FrameBytes(file.frames, Len(out))

\* an Attachment frame of length 12 with a body of 3 bytes advanced the
\* counter by 4 + 12 + 3 + 10
C11_Witness ==
    /\ Len(out) > 0 /\ ret.kind = "Ok"
    /\ ret.frame.variant = "Attachment" /\ ret.frame.data_length = 3
    /\ peek = U32(12)
    /\ rd.count_byte = pre.count_byte + 29

----------------------------------------------------------------------------
(* C12: when the End frame of a valid backup (with or without a few        *)
(* trailing bytes after it) has been read, the byte counter does not       *)
(* exceed the size of the file: file_size - count_byte is 0 or the size of *)
(* the trailer.  InputFile::new starts the counter 16 above the bytes it   *)
(* has read and nothing is read for those 16, so after the End frame the   *)
(* counter is file_size - trailer + 16.                                    *)

\* the End frame of a valid backup, trailing bytes apart, has been read
EndRead ==
    /\ ValidBackup([file EXCEPT !.tail = 0]) /\ WithinLimit(file)
    /\ Len(out) >= Len(file.frames)
    /\ out[Len(file.frames)].ret.kind = "Ok"
    /\ out[Len(file.frames)].ret.frame.variant = "End"

C12_CounterWithinFile ==
    /\ (phase = "open" /\ ValidBackup([file EXCEPT !.tail = 0])) =>
          rd.count_byte <= FileSize(file)
    /\ (EndRead /\ Len(out) = Len(file.frames)) =>
          /\ rd.count_byte <= FileSize(file)
          /\ FileSize(file) - rd.count_byte \in {0, file.tail}

----------------------------------------------------------------------------
(* C13: a password is accepted only if, its whitespace stripped, it is     *)
(* exactly 30 ASCII digits; any other is rejected with an error and no     *)
(* Config.  Config::new drops every character that is not a digit, not     *)
(* only whitespace, before it counts: 30 digits with a letter or a '-'     *)
(* among them are accepted.                                                *)

\* tab, line feed, carriage return, space
IsNotSpace(c) == c \notin {9, 10, 13, 32}

\* exactly 30 ASCII digits once whitespace is stripped
ThirtyDigits(p) ==
    /\ Len(SelectSeq(p, IsNotSpace)) = PASSWORD_LEN
    /\ \A i \in 1..Len(p) : IsNotSpace(p[i]) => IsDigit(p[i])

C13_OnlyThirtyDigitsAccepted ==
    /\ config.kind = "Ok" => ThirtyDigits(password)
    /\ (config # NoConfig /\ ~ThirtyDigits(password)) => config.kind = "Err"

----------------------------------------------------------------------------
(* C14: for a Statement record whose every parameter has a known shape,    *)
(* Frame::new returns a Statement whose parameter list has the length and  *)
(* order of the record's, element i converted by its type: a string        *)
(* parameter to Text, an integer to Integer (i64), a double to Real (f64), *)
(* a blob to Blob, a null to Null.                                         *)

KnownShapes == {"string", "integer", "double", "blob", "null"}

C14_StatementParametersKept ==
    (/\ phase = "converted"
     /\ parsed.fields = {"statement"}
     /\ \A i \in 1..Len(parsed.params) : parsed.params[i] \in KnownShapes) =>
        /\ ret.kind = "Ok"
        /\ ret.frame.variant = "Statement"
        /\ Len(ret.frame.params) = Len(parsed.params)
        /\ \A i \in 1..Len(parsed.params) :
              /\ parsed.params[i] = "string" => ret.frame.params[i] = "Text"
              /\ parsed.params[i] = "integer" =>
                    ret.frame.params[i] = "Integer"
              /\ parsed.params[i] = "double" => ret.frame.params[i] = "Real"
              /\ parsed.params[i] = "blob" => ret.frame.params[i] = "Blob"
              /\ parsed.params[i] = "null" => ret.frame.params[i] = "Null"

\* the parameters [i64, string, null] came back in that order
C14_Witness ==
    /\ phase = "converted"
    /\ parsed.params = <<"integer", "string", "null">>
    /\ ret.kind = "Ok"
    /\ ret.frame.params = <<"Integer", "Text", "Null">>

----------------------------------------------------------------------------
(* C15: increase_iv is called exactly once for each frame read and once    *)
(* for each blob body read, each time right after the verify_mac of that   *)
(* frame or body has succeeded; when verify_mac fails, increase_iv is not  *)
(* called for it and no frame is returned.                                 *)

\* how often the last call made the call named e
Count(e) == Cardinality({i \in 1..Len(trace) : trace[i] = e})

C15_IncreaseIvOncePerVerifiedUnit ==
    Len(out) > 0 =>
        /\ \A i \in 1..Len(trace) :
              trace[i] = "increase_iv" => i > 1 /\ trace[i - 1] = "verify_mac"
        /\ \A i \in 1..Len(trace) :
              (trace[i] = "verify_mac" /\ i < Len(trace)) =>
                  trace[i + 1] = "increase_iv"
        /\ ret.kind = "Ok" =>
              Count("increase_iv") =
                  IF ret.frame.variant \in BlobVariants THEN 2 ELSE 1
        /\ Count("increase_iv") <= 2
        /\ ret.err = "Mac" =>
              /\ trace[Len(trace)] = "verify_mac"
              /\ Count("increase_iv") = Count("verify_mac") - 1
              /\ ret.frame = NoFrame
              /\ item \in {"", "Some"}
        /\ (trace[Len(trace)] = "verify_mac" /\ pre.verify) =>
              ret.err = "Mac"
        /\ rd.ctr = U32Add(pre.ctr, Count("increase_iv"))

\* a frame and its blob body were read: two calls of increase_iv
C15_Witness ==
    /\ Len(out) > 0 /\ ret.kind = "Ok"
    /\ ret.frame.variant \in BlobVariants
    /\ Count("increase_iv") = 2 /\ Count("verify_mac") = 2

\* the MAC of a blob body did not verify: the frame's increase_iv was
\* called, the body's was not
C15_WitnessBodyMac ==
    /\ Len(out) > 0 /\ ret.err = "Mac"
    /\ Count("verify_mac") = 2 /\ Count("increase_iv") = 1

----------------------------------------------------------------------------
(* C16: after n frames and b blob bodies have been read successfully, the  *)
(* 32-bit counter of the IV is (c0 + n + b) mod 2^32, c0 being the counter *)
(* in the Header's iv; with c0 = 0xFFFFFFFF the second frame is read at    *)
(* counter 0 without error.                                                *)

\* (u + k) mod 2^32 for a small k
AddMod32(u, k) ==
    <<(u[1] + ((u[2] + k) \div Half)) % Half, (u[2] + k) % Half>>

\* the blob bodies among the frames returned so far
BodiesRead ==
    Cardinality({k \in 1..Len(out) :
                    out[k].ret.frame.variant \in BlobVariants})

C16_CounterCountsFramesAndBodies ==
    /\ (phase = "open" /\ NoErr(out)) =>
          rd.ctr = AddMod32(file.hdr_rec.ctr, Len(out) + BodiesRead)
    /\ (/\ ValidBackup(file) /\ file.hdr_rec.ctr = <<Half - 1, Half - 1>>
        /\ Len(out) = 2 /\ BodyLen(file) >= 2
        /\ ~HasBlob(file.frames[1])) =>
          /\ out[1].ret.kind = "Ok"
          /\ pre.ctr = <<0, 0>>
          /\ ret.kind = "Ok"
          /\ rd.ctr = <<0, 1 + BodiesRead>>

\* the header's counter is 0xFFFFFFFF and the second frame, one with a blob
\* body, was read at counter 0
C16_Witness ==
    /\ ValidBackup(file) /\ file.hdr_rec.ctr = <<Half - 1, Half - 1>>
    /\ Len(out) = 2 /\ BodyLen(file) >= 2
    /\ pre.ctr = <<0, 0>>
    /\ ret.kind = "Ok" /\ ret.frame.variant = "Attachment"
    /\ rd.ctr = <<0, 2>>

----------------------------------------------------------------------------
(* C17: mac_update_with_iv is called exactly once per blob body, after the *)
(* increase_iv of the frame that declared the body and before the body's   *)
(* bytes are read and decrypted; it is never called while a framed record  *)
(* (length prefix and payload) is read.                                    *)

\* the last call got as far as reading the blob body of its frame
BodyStarted ==
    /\ Decoded /\ Converts(parsed)
    /\ parsed.fields \subseteq {"attachment", "avatar", "sticker"}

C17_IvFedOncePerBody ==
    Len(out) > 0 =>
        /\ Count("mac_update_with_iv") = IF BodyStarted THEN 1 ELSE 0
        /\ \A i \in 1..Len(trace) :
              trace[i] = "mac_update_with_iv" =>
                  /\ i > 2
                  /\ trace[i - 1] = "try_into"
                  /\ trace[i - 2] = "increase_iv"
                  /\ i < Len(trace) /\ trace[i + 1] = "read_body"
                  /\ \A j \in 1..Len(trace) :
                        trace[j] = "decrypt" =>
                            j < i - 2 \/ (j = i + 2 /\ Count("decrypt") = 2)
        /\ (ret.kind = "Ok" /\ ret.frame.variant \in BlobVariants) =>
              Count("mac_update_with_iv") = 1
        /\ (ret.kind = "Ok" /\ ret.frame.variant \notin BlobVariants) =>
              Count("mac_update_with_iv") = 0

\* an Avatar frame and its body were read with one call of
\* mac_update_with_iv
C17_Witness ==
    /\ Len(out) > 0 /\ ret.kind = "Ok"
    /\ ret.frame.variant = "Avatar"
    /\ Count("mac_update_with_iv") = 1

----------------------------------------------------------------------------
(* C18: previewing the 4-byte length prefix leaves the Decrypter's counter *)
(* and HMAC accumulator unchanged; the frame's one decrypt call is given   *)
(* the 4 prefix bytes followed by the L - 10 payload bytes, so the HMAC    *)
(* verified for the frame covers exactly prefix and payload, and the       *)
(* previewed length and the payload are plaintext of one keystream: an     *)
(* undamaged frame read where and under the counter it was written is      *)
(* previewed with its written length, verifies and parses to its record.   *)

\* the last call read written frame i, undamaged, where it starts and under
\* its counter, with verification on and an empty HMAC accumulator
ReadAsWritten(i) ==
    /\ file.key_ok /\ pre.verify /\ pre.acc = <<>>
    /\ Start(file, i) = pre.pos /\ Ctr(file, i) = pre.ctr
    /\ ~Dirty(file, Start(file, i),
              SIZE_U32 + file.frames[i].pay + LENGTH_HMAC)

\* written frame i lies in the file whole, with a length the reader accepts
Readable(i) ==
    /\ file.frames[i].len = U32(file.frames[i].pay + LENGTH_HMAC)
    /\ ~U32Gt(file.frames[i].len, U32(MAX_FRAME_SIZE))
    /\ MacStart(file, i) + LENGTH_HMAC <= FileSize(file)

C18_PreviewThenOneDecrypt ==
    Previewed =>
        /\ Len(trace) <= 3 => rd.ctr = pre.ctr /\ rd.acc = pre.acc
        /\ Count("preview") = 1 /\ trace[2] = "preview"
        /\ Called("decrypt") =>
              /\ trace[3] = "read_payload" /\ trace[4] = "decrypt"
              /\ \A j \in 1..3 : trace[j] # "decrypt"
        /\ (Len(trace) = 5 /\ ret.err = "Io") =>
              /\ rd.ctr = pre.ctr
              /\ rd.acc =
                   Append(pre.acc,
                          <<"ct", pre.pos,
                            SIZE_U32 + (ToInt(peek) - LENGTH_HMAC)>>)
        /\ \A i \in 1..Len(file.frames) :
              ReadAsWritten(i) =>
                  /\ peek = file.frames[i].len
                  /\ Readable(i) =>
                        /\ Len(trace) >= 7
                        /\ trace[6] = "verify_mac"
                        /\ trace[7] = "increase_iv"
                        /\ parsed = file.frames[i].rec

\* a written Statement frame of length 12 was previewed, verified and
\* parsed
C18_Witness ==
    /\ Previewed
    /\ \E i \in 1..Len(file.frames) : ReadAsWritten(i) /\ Readable(i)
    /\ peek = U32(12)
    /\ parsed = StmtRec
    /\ ret.kind = "Ok"

\* the file ended in the MAC of a frame: the HMAC had been fed the prefix
\* and the payload
C18_WitnessFed ==
    /\ Previewed /\ Len(trace) = 5 /\ ret.err = "Io"
    /\ rd.acc = <<<<"ct", pre.pos, SIZE_U32 + 2>>>>

----------------------------------------------------------------------------
(* C19: a read_frame call that fails at or before the frame's MAC          *)
(* verification (short read, length above the limit, length below 10, MAC  *)
(* mismatch) leaves the IV counter, count_byte and count_frame unchanged;  *)
(* count_frame starts at 1 and grows by exactly 1 in a call that returns   *)
(* Ok and in no other call; a call that fails after the MAC verification   *)
(* (parse failure, unexpected Header, blob-body failure) leaves            *)
(* count_frame unchanged with the IV counter advanced by one and           *)
(* count_byte by 4 + L.                                                    *)

\* the calls so far that returned Ok
OkCalls == Cardinality({i \in 1..Len(out) : out[i].ret.kind = "Ok"})

\* the last call failed at or before the frame's MAC verification
FailedUnverified == ret.kind = "Err" /\ ~Called("increase_iv")

\* the last call failed after the frame's MAC verification
FailedVerified == ret.kind = "Err" /\ Called("increase_iv")

C19_CountersOnFailure ==
    /\ (phase = "open" /\ Len(out) = 0) => rd.count_frame = 1
    /\ (phase = "open" \/ Len(out) > 0) => rd.count_frame = 1 + OkCalls
    /\ Len(out) > 0 =>
        /\ FailedUnverified =>
              /\ ret.err \in {"Io", "SanityLimit", "TooSmall", "Mac"}
              /\ rd.ctr = pre.ctr
              /\ rd.count_byte = pre.count_byte
              /\ rd.count_frame = pre.count_frame
        /\ FailedVerified =>
              /\ ret.err \in {"Parse", "UnexpectedHeader", "Io", "Mac"}
              /\ rd.count_frame = pre.count_frame
              /\ rd.ctr = AddMod32(pre.ctr, 1)
              /\ rd.count_byte = pre.count_byte + SIZE_U32 + ToInt(peek)
        /\ ret.kind = "Ok" => rd.count_frame = pre.count_frame + 1
        /\ ret.kind # "Ok" => rd.count_frame = pre.count_frame

\* a payload that verified and did not parse: counter and count_byte moved,
\* count_frame did not
C19_Witness ==
    /\ Len(out) > 0 /\ FailedVerified /\ ret.err = "Parse"
    /\ rd.ctr # pre.ctr /\ rd.count_byte > pre.count_byte
    /\ rd.count_frame = pre.count_frame

\* a second Header
C19_WitnessHeader ==
    Len(out) > 0 /\ FailedVerified /\ ret.err = "UnexpectedHeader"

\* a blob body that failed after its frame verified
C19_WitnessBody ==
    /\ Len(out) > 0 /\ FailedVerified /\ Called("read_body")
    /\ ret.err \in {"Io", "Mac"}

\* each failure at or before the MAC verification, after a frame was
\* returned
C19_WitnessShortRead ==
    Len(out) > 1 /\ FailedUnverified /\ ret.err = "Io" /\ rd.count_frame = 2

C19_WitnessAboveLimit ==
    Len(out) > 0 /\ FailedUnverified /\ ret.err = "SanityLimit"

C19_WitnessBelowMac == Len(out) > 0 /\ FailedUnverified /\ ret.err = "TooSmall"

C19_WitnessMac ==
    Len(out) > 0 /\ FailedUnverified /\ ret.err = "Mac" /\ Called("verify_mac")

----------------------------------------------------------------------------
(* C20: on any finite file a caller that pulls the iterator until the      *)
(* first None or Some(Err) stops after finitely many calls: every call     *)
(* that returns Ok consumes at least 14 bytes of the file (4 length bytes  *)
(* and L >= 10), the position never passes the end of the file, and so     *)
(* the Ok frames are bounded by the file size.                             *)

\* the position of the reader after the calls so far
Consumed ==
    (phase = "open" \/ Len(out) > 0) =>
        /\ rd.pos <= FileSize(file)
        /\ rd.pos >= pre.pos
        /\ (Len(out) > 0 /\ ret.kind = "Ok") =>
              rd.pos >= pre.pos + SIZE_U32 + LENGTH_HMAC
        /\ SIZE_U32 + file.hdr_len + (SIZE_U32 + LENGTH_HMAC) * OkCalls
              <= rd.pos

C20_PullStops == []Consumed /\ <>Stopped

\* the loop ended with None after two frames were returned
C20_Witness ==
    /\ Stopped /\ Len(out) = 3 /\ item = "None"
    /\ out[1].ret.kind = "Ok" /\ out[2].ret.kind = "Ok"
    /\ rd.pos >= SIZE_U32 + file.hdr_len + 3 * (SIZE_U32 + LENGTH_HMAC)

\* the loop ended at the end of a file without an End frame
C20_WitnessEof ==
    /\ Stopped /\ Len(out) > 1 /\ ret.err = "Io" /\ trace = <<"read_len">>
    /\ rd.pos = FileSize(file)

====
